---- MODULE Spec2Model ----
(***************************************************************************)
(* One prompt-render pass of the AWS module of starship                    *)
(* (src/modules/aws.rs): the profile/region selector, the lazy load-once   *)
(* file cells, the three credential-presence predicates, the display gate  *)
(* and the expiration calculator.                                          *)
(*                                                                         *)
(* Option<T> is a sequence: None is << >> and Some(x) is <<x>>.            *)
(* A path is a sequence of strings (PathBuf components).                   *)
(* An Ini is a function  section name -> (key -> value).                   *)
(***************************************************************************)
EXTENDS Naturals, Integers, Sequences, FiniteSets, TLC

VARIABLES
    env,            \* the process environment: variable name -> Option<String>
    home,           \* context.get_home(): Option<path>
    fs,             \* the filesystem: path -> [kind, data]
    now,            \* chrono::Local::now().timestamp()
    config,         \* AwsConfig: force_display, aliases, expiration_symbol
    aws_config,     \* OnceCell<Option<Ini>> of the config file
    aws_creds,      \* OnceCell<Option<Ini>> of the credentials file
    sso_reads,      \* number of reads of an SSO cache file in this pass
    pc,             \* position of module() in its body
    aws_profile,    \* Option<Profile> returned by the selector
    aws_region,     \* Option<Region> returned by the selector
    has_cp,         \* result of has_credential_process_or_sso in the gate
    has_src,        \* result of has_source_profile in the gate
    has_def,        \* result of has_defined_credentials in the gate
    duration,       \* Option<i64> returned by get_credentials_duration
    fs_changes,     \* number of changes made to the files during the pass
    out,            \* what the pass hands to the formatter
    pass,           \* number of the pass: module() is called once per prompt render
    last,           \* Option: the inputs and the outcome of the previous pass
    wpc,            \* position of is_write_allowed() in its body
    length,         \* the size of the security descriptor, as the size query gave it
    token,          \* Option<Handle> of the process token
    impersonated_token, \* Option<Handle> of the impersonation token
    result,         \* the access status written by AccessCheck
    handles,        \* the handles is_write_allowed has open in the process
    calls,          \* the calls made into the Windows API, in order
    logged,         \* number of "CloseHandle failed" lines in the debug log
    ret             \* Option: the value is_write_allowed returns

awsvars == <<env, home, fs, now, config, aws_config, aws_creds, sso_reads, pc,
             aws_profile, aws_region, has_cp, has_src, has_def, duration,
             fs_changes, out, pass, last>>

winvars == <<wpc, length, token, impersonated_token, result, handles, calls, logged, ret>>

vars == <<awsvars, winvars>>

None == << >>
Some(x) == <<x>>

(***************************************************************************)
(* Environment                                                             *)
(***************************************************************************)
\* profile_env_vars with AWS_PROFILE consulted first
profile_env_vars_plain_first ==
    <<"AWS_PROFILE", "AWSU_PROFILE", "AWS_VAULT", "AWSUME_PROFILE", "AWS_SSO_PROFILE">>

\* aws.rs:102
profile_env_vars ==
    <<"AWSU_PROFILE", "AWS_VAULT", "AWSUME_PROFILE", "AWS_PROFILE", "AWS_SSO_PROFILE">>

region_env_vars == <<"AWS_REGION", "AWS_DEFAULT_REGION">>

valid_env_vars == <<"AWS_ACCESS_KEY_ID", "AWS_SECRET_ACCESS_KEY", "AWS_SESSION_TOKEN">>

expiration_env_vars ==
    <<"AWS_CREDENTIAL_EXPIRATION", "AWS_SESSION_EXPIRATION", "AWSUME_EXPIRATION">>

path_env_vars == <<"AWS_CONFIG_FILE", "AWS_SHARED_CREDENTIALS_FILE", "AWS_CREDENTIALS_FILE">>

Range(s) == {s[i] : i \in DOMAIN s}

EnvVars ==
    Range(profile_env_vars) \cup Range(region_env_vars) \cup Range(valid_env_vars)
        \cup Range(expiration_env_vars) \cup Range(path_env_vars)

\* context.get_env(name)
get_env(name) == env[name]

\* names.iter().find_map(|v| context.get_env(v)): the value of the first set variable
RECURSIVE find_map_env(_, _)
find_map_env(names, i) ==
    IF i > Len(names) THEN None
    ELSE IF get_env(names[i]) # None THEN get_env(names[i])
    ELSE find_map_env(names, i + 1)

(***************************************************************************)
(* Files                                                                   *)
(***************************************************************************)
\* PathBuf::from_str(s): never fails
PathBuf(s) == <<s>>

\* path.push(component)
push(path, component) == Append(path, component)

\* aws.rs:22 get_credentials_file_path
get_credentials_file_path ==
    LET override ==
            IF get_env("AWS_SHARED_CREDENTIALS_FILE") # None
            THEN get_env("AWS_SHARED_CREDENTIALS_FILE")
            ELSE get_env("AWS_CREDENTIALS_FILE")
    IN  IF override # None THEN Some(PathBuf(override[1]))
        ELSE IF home = None THEN None
        ELSE Some(push(home[1], ".aws/credentials"))

\* aws.rs:34 get_config_file_path
get_config_file_path ==
    LET override == get_env("AWS_CONFIG_FILE")
    IN  IF override # None THEN Some(PathBuf(override[1]))
        ELSE IF home = None THEN None
        ELSE Some(push(home[1], ".aws/config"))

\* load_from_file taking an unparseable file for an empty one
load_from_file_garbage_is_empty(path) ==
    IF path \in DOMAIN fs /\ fs[path].kind = "ini" THEN Some(fs[path].data)
    ELSE IF path \in DOMAIN fs /\ fs[path].kind = "garbage" THEN Some(<< >>)
    ELSE None

\* Ini::load_from_file(path).ok(): Some(ini) only for a readable, parseable file
load_from_file(path) ==
    IF path \in DOMAIN fs /\ fs[path].kind = "ini" THEN Some(fs[path].data) ELSE None

\* OnceCell::new()
EmptyCell == [init |-> FALSE, val |-> None, reads |-> 0]

\* get_or_init running the closure on every call
get_or_init_reloads(cell, path_opt) ==
    IF path_opt = None THEN [init |-> TRUE, val |-> None, reads |-> cell.reads]
    ELSE [init |-> TRUE, val |-> load_from_file(path_opt[1]), reads |-> cell.reads + 1]

\* cell.get_or_init(|| { let path = path_opt?; Ini::load_from_file(path).ok() }):
\* the closure runs only on an uninitialised cell; reads counts the file reads
get_or_init(cell, path_opt) ==
    IF cell.init THEN cell
    ELSE IF path_opt = None THEN [init |-> TRUE, val |-> None, reads |-> cell.reads]
    ELSE [init |-> TRUE, val |-> load_from_file(path_opt[1]), reads |-> cell.reads + 1]

\* aws.rs:46 get_config: the cell after the call (its val is the value returned)
get_config(cell) == get_or_init(cell, get_config_file_path)

\* aws.rs:56 get_creds
get_creds(cell) == get_or_init(cell, get_credentials_file_path)

\* ini.section(Some(name))
section(ini, name) == IF name \in DOMAIN ini THEN Some(ini[name]) ELSE None

\* properties.get(key)
get(props, key) == IF key \in DOMAIN props THEN Some(props[key]) ELSE None

\* properties.contains_key(key)
contains_key(props, key) == key \in DOMAIN props

\* ini::Properties::new()
empty_section == << >>

\* get_profile_config without the "profile " prefix
get_profile_config_bare(ini, profile) ==
    IF profile # None THEN section(ini, profile[1])
    ELSE section(ini, "default")

\* aws.rs:66 get_profile_config
get_profile_config(ini, profile) ==
    IF profile # None THEN section(ini, "profile " \o profile[1])
    ELSE section(ini, "default")

\* aws.rs:77 get_profile_creds
get_profile_creds(ini, profile) ==
    IF profile = None THEN section(ini, "default")
    ELSE section(ini, profile[1])

(***************************************************************************)
(* Selector                                                                *)
(***************************************************************************)
\* aws.rs:87 get_aws_region_from_config: the region and the cell after the call
get_aws_region_from_config(profile, cfg) ==
    LET c1 == get_config(cfg)
        sec == IF c1.val = None THEN None ELSE get_profile_config(c1.val[1], profile)
    IN  [res |-> IF sec = None THEN None ELSE get(sec[1], "region"), cfg |-> c1]

\* get_aws_profile_and_region loading the config file before looking at the environment
get_aws_profile_and_region_eager(cfg) ==
    LET profile == find_map_env(profile_env_vars, 1)
        region  == find_map_env(region_env_vars, 1)
        r == get_aws_region_from_config(profile, cfg)
    IN  [profile |-> profile, region |-> IF region # None THEN region ELSE r.res,
         cfg |-> r.cfg]

\* aws.rs:98 get_aws_profile_and_region
get_aws_profile_and_region(cfg) ==
    LET profile == find_map_env(profile_env_vars, 1)
        region  == find_map_env(region_env_vars, 1)
    IN  IF region # None
        THEN [profile |-> profile, region |-> region, cfg |-> cfg]
        ELSE LET r == get_aws_region_from_config(profile, cfg)
             IN  [profile |-> profile, region |-> r.res, cfg |-> r.cfg]

(***************************************************************************)
(* Credential presence predicates                                          *)
(***************************************************************************)
\* opt.unwrap_or(false) for an Option<bool>
unwrap_or_false(opt) == opt # None /\ opt[1]

\* aws.rs:179 has_credential_process_or_sso: the result and both cells after the call
has_credential_process_or_sso(profile, cfg, creds) ==
    LET c1 == get_config(cfg)
    IN  IF c1.val = None
        THEN [res |-> None, cfg |-> c1, creds |-> creds]
        ELSE
          LET k1 == get_creds(creds)
              found == get_profile_config(c1.val[1], profile)
              config_section == IF found # None THEN found[1] ELSE empty_section
              credential_section ==
                  IF k1.val # None THEN get_profile_creds(k1.val[1], profile) ELSE None
              res ==
                  IF \/ contains_key(config_section, "credential_process")
                     \/ contains_key(config_section, "sso_session")
                     \/ contains_key(config_section, "sso_start_url")
                  THEN Some(TRUE)
                  ELSE IF credential_section = None THEN None
                  ELSE Some(\/ contains_key(credential_section[1], "credential_process")
                            \/ contains_key(credential_section[1], "sso_start_url"))
          IN  [res |-> res, cfg |-> c1, creds |-> k1]

\* has_defined_credentials loading the credentials file before looking at the environment
has_defined_credentials_loads_first(profile, creds) ==
    LET k1 == get_creds(creds)
        sec == IF k1.val = None THEN None ELSE get_profile_creds(k1.val[1], profile)
    IN  IF \E i \in DOMAIN valid_env_vars : get_env(valid_env_vars[i]) # None
        THEN [res |-> Some(TRUE), creds |-> k1]
        ELSE [res |-> IF sec = None THEN None
                      ELSE Some(contains_key(sec[1], "aws_access_key_id")),
              creds |-> k1]

\* aws.rs:208 has_defined_credentials: the result and the credentials cell after the call
has_defined_credentials(profile, creds) ==
    IF \E i \in DOMAIN valid_env_vars : get_env(valid_env_vars[i]) # None
    THEN [res |-> Some(TRUE), creds |-> creds]
    ELSE
      LET k1 == get_creds(creds)
          sec == IF k1.val = None THEN None ELSE get_profile_creds(k1.val[1], profile)
      IN  [res |-> IF sec = None THEN None
                   ELSE Some(contains_key(sec[1], "aws_access_key_id")),
           creds |-> k1]

\* has_source_profile following the source profile's own source_profile one step further
has_source_profile_follows_chain(profile, cfg, creds) ==
    LET c1 == get_config(cfg)
        config_section ==
            IF c1.val = None THEN None ELSE get_profile_config(c1.val[1], profile)
    IN  IF config_section = None
        THEN [res |-> None, cfg |-> c1, creds |-> creds]
        ELSE
          LET source_profile == get(config_section[1], "source_profile")
              p == has_credential_process_or_sso(source_profile, c1, creds)
              d == has_defined_credentials(source_profile, p.creds)
              next_section == get_profile_config(c1.val[1], source_profile)
              next_profile == IF next_section = None THEN None
                              ELSE get(next_section[1], "source_profile")
              p2 == has_credential_process_or_sso(next_profile, c1, d.creds)
              d2 == has_defined_credentials(next_profile, p2.creds)
          IN  [res |-> Some(\/ unwrap_or_false(p.res) \/ unwrap_or_false(d.res)
                            \/ (next_profile # None
                                /\ (unwrap_or_false(p2.res) \/ unwrap_or_false(d2.res)))),
               cfg |-> p.cfg, creds |-> d2.creds]

\* has_source_profile taking the mere presence of a source_profile key for evidence
has_source_profile_key_suffices(profile, cfg, creds) ==
    LET c1 == get_config(cfg)
        config_section ==
            IF c1.val = None THEN None ELSE get_profile_config(c1.val[1], profile)
    IN  IF config_section = None
        THEN [res |-> None, cfg |-> c1, creds |-> creds]
        ELSE [res |-> Some(contains_key(config_section[1], "source_profile")),
              cfg |-> c1, creds |-> creds]

\* aws.rs:233 has_source_profile: the result and both cells after the call
has_source_profile(profile, cfg, creds) ==
    LET c1 == get_config(cfg)
        config_section ==
            IF c1.val = None THEN None ELSE get_profile_config(c1.val[1], profile)
    IN  IF config_section = None
        THEN [res |-> None, cfg |-> c1, creds |-> creds]
        ELSE
          LET source_profile == get(config_section[1], "source_profile")
              p == has_credential_process_or_sso(source_profile, c1, creds)
              d == has_defined_credentials(source_profile, p.creds)
          IN  [res |-> Some(unwrap_or_false(p.res) \/ unwrap_or_false(d.res)),
               cfg |-> p.cfg, creds |-> d.creds]

(***************************************************************************)
(* Expiration calculator                                                   *)
(***************************************************************************)
\* DateTime::parse_from_rfc3339(s).ok() followed by .timestamp(): the seconds
\* since the epoch of a timezone-aware RFC 3339 string, None for any other text
parse_from_rfc3339(s) ==
    CASE s = "1970-01-01T00:10:00Z"      -> Some(600)
      [] s = "1970-01-01T00:20:00Z"      -> Some(1200)
      [] s = "1970-01-01T01:20:00+01:00" -> Some(1200)
      [] s = "1970-01-01T00:30:00Z"      -> Some(1800)
      [] OTHER                           -> None

\* encode_to_hex(Sha1::digest(url.as_bytes()))
sha1_hex(url) ==
    CASE url = "https://starship.rs/sso"   -> "a47a4e57aecc96b31b4f083543924bd6f828e65a"
      [] url = "https://example.com/start" -> "b343494cf15ba6b81449840ea93161cf3b27e5e3"
      [] OTHER                             -> "da39a3ee5e6b4b0d3255bfef95601890afd80709"

\* keys.iter().find_map(|k| section.get(k)): the value of the first present key
RECURSIVE find_map_key(_, _, _)
find_map_key(props, keys, i) ==
    IF i > Len(keys) THEN None
    ELSE IF get(props, keys[i]) # None THEN get(props, keys[i])
    ELSE find_map_key(props, keys, i + 1)

\* expiration_keys with x_security_token_expires consulted first
expiration_keys_swapped == <<"x_security_token_expires", "expiration">>

expiration_keys == <<"expiration", "x_security_token_expires">>

\* aws.rs:153-166: the expiry read from the cached SSO credentials
sso_expiration(profile, cfg) ==
    LET c1 == get_config(cfg)
        sec == IF c1.val = None THEN None ELSE get_profile_config(c1.val[1], profile)
        start_url == IF sec = None THEN None ELSE get(sec[1], "sso_start_url")
    IN  IF start_url = None \/ home = None
        THEN [res |-> None, cfg |-> c1, read |-> 0]
        ELSE
          LET sso_cred_path ==
                  push(home[1], ".aws/sso/cache/" \o sha1_hex(start_url[1]) \o ".json")
              json == IF sso_cred_path \in DOMAIN fs /\ fs[sso_cred_path].kind = "json"
                      THEN Some(fs[sso_cred_path].data) ELSE None
              expires_at == IF json = None THEN None ELSE get(json[1], "expiresAt")
              as_str == IF expires_at = None \/ expires_at[1].type # "string"
                        THEN None ELSE Some(expires_at[1].str)
          IN  [res |-> IF as_str = None THEN None ELSE parse_from_rfc3339(as_str[1]),
               cfg |-> c1, read |-> 1]

\* aws.rs:127 get_credentials_duration: the result, both cells after the call and
\* the number of SSO cache files read
get_credentials_duration(profile, cfg, creds) ==
    LET from_env == find_map_env(expiration_env_vars, 1)
    IN  IF from_env # None
        THEN LET e == parse_from_rfc3339(from_env[1])
             IN  [res |-> IF e = None THEN None ELSE Some(e[1] - now),
                  cfg |-> cfg, creds |-> creds, read |-> 0]
        ELSE
          LET k1 == get_creds(creds)
              sec == IF k1.val = None THEN None ELSE get_profile_creds(k1.val[1], profile)
          IN  IF sec # None
              THEN LET expiration == find_map_key(sec[1], expiration_keys, 1)
                       e == IF expiration = None THEN None
                            ELSE parse_from_rfc3339(expiration[1])
                   IN  [res |-> IF e = None THEN None ELSE Some(e[1] - now),
                        cfg |-> cfg, creds |-> k1, read |-> 0]
              ELSE LET s == sso_expiration(profile, cfg)
                   IN  [res |-> IF s.res = None THEN None ELSE Some(s.res[1] - now),
                        cfg |-> s.cfg, creds |-> k1, read |-> s.read]

(***************************************************************************)
(* Output                                                                  *)
(***************************************************************************)
\* alias_name looking the mapped value up again
alias_name_chained(name, aliases) ==
    IF name # None /\ name[1] \in DOMAIN aliases
    THEN IF aliases[name[1]] \in DOMAIN aliases
         THEN Some(aliases[aliases[name[1]]])
         ELSE Some(aliases[name[1]])
    ELSE name

\* aws.rs:172 alias_name
alias_name(name, aliases) ==
    IF name # None /\ name[1] \in DOMAIN aliases THEN Some(aliases[name[1]]) ELSE name

\* render_duration taking a duration of zero for time left
render_duration_zero_is_span(d) ==
    IF d = None THEN None
    ELSE IF d[1] >= 0 THEN Some([span |-> TRUE, secs |-> d[1], text |-> ""])
    ELSE Some([span |-> FALSE, secs |-> 0, text |-> config.expiration_symbol])

\* aws.rs:280-286: the duration field, a time span or the expiration symbol
render_duration(d) ==
    IF d = None THEN None
    ELSE IF d[1] > 0 THEN Some([span |-> TRUE, secs |-> d[1], text |-> ""])
    ELSE Some([span |-> FALSE, secs |-> 0, text |-> config.expiration_symbol])

Running == [kind |-> "running", profile |-> None, region |-> None, duration |-> None]

Suppressed == [kind |-> "suppressed", profile |-> None, region |-> None, duration |-> None]

Unevaluated == [evaluated |-> FALSE, res |-> None]

Evaluated(res) == [evaluated |-> TRUE, res |-> res]

(***************************************************************************)
(* module(): one action per step of its body                               *)
(***************************************************************************)
\* Select looking at force_display before the return for an unresolved pass
Select_ForceFirst ==
    /\ pc = "select"
    /\ LET r == get_aws_profile_and_region(aws_config)
       IN  /\ aws_profile' = r.profile
           /\ aws_region' = r.region
           /\ aws_config' = r.cfg
           /\ IF config.force_display
              THEN pc' = "duration" /\ out' = out
              ELSE IF r.profile = None /\ r.region = None
              THEN pc' = "done" /\ out' = Suppressed
              ELSE pc' = "gate_cp" /\ out' = out
    /\ UNCHANGED <<winvars, pass, last, env, home, fs, now, config, aws_creds, sso_reads, has_cp,
                   has_src, has_def, duration, fs_changes>>

\* aws.rs:262-265: the selector, and the return when nothing is resolved
Select ==
    /\ pc = "select"
    /\ LET r == get_aws_profile_and_region(aws_config)
       IN  /\ aws_profile' = r.profile
           /\ aws_region' = r.region
           /\ aws_config' = r.cfg
           /\ IF r.profile = None /\ r.region = None
              THEN pc' = "done" /\ out' = Suppressed
              ELSE /\ pc' = IF config.force_display THEN "duration" ELSE "gate_cp"
                   /\ out' = out
    /\ UNCHANGED <<winvars, pass, last, env, home, fs, now, config, aws_creds, sso_reads, has_cp, has_src,
                   has_def, duration, fs_changes>>

\* GateProcess looking the profile up under its alias
GateProcess_Aliased ==
    /\ pc = "gate_cp"
    /\ LET r == has_credential_process_or_sso(
                    alias_name(aws_profile, config.profile_aliases), aws_config, aws_creds)
       IN  /\ has_cp' = Evaluated(r.res)
           /\ aws_config' = r.cfg
           /\ aws_creds' = r.creds
           /\ pc' = IF unwrap_or_false(r.res) THEN "duration" ELSE "gate_src"
    /\ UNCHANGED <<winvars, pass, last, env, home, fs, now, config, sso_reads, aws_profile,
                   aws_region, has_src, has_def, duration, fs_changes, out>>

\* aws.rs:269-270: first operand of the gate
GateProcess ==
    /\ pc = "gate_cp"
    /\ LET r == has_credential_process_or_sso(aws_profile, aws_config, aws_creds)
       IN  /\ has_cp' = Evaluated(r.res)
           /\ aws_config' = r.cfg
           /\ aws_creds' = r.creds
           /\ pc' = IF unwrap_or_false(r.res) THEN "duration" ELSE "gate_src"
    /\ UNCHANGED <<winvars, pass, last, env, home, fs, now, config, sso_reads, aws_profile, aws_region,
                   has_src, has_def, duration, fs_changes, out>>

\* GateSource with the third operand of the gate dropped
GateSource_SkipsDefined ==
    /\ pc = "gate_src"
    /\ LET r == has_source_profile(aws_profile, aws_config, aws_creds)
       IN  /\ has_src' = Evaluated(r.res)
           /\ aws_config' = r.cfg
           /\ aws_creds' = r.creds
           /\ IF unwrap_or_false(r.res)
              THEN pc' = "duration" /\ out' = out
              ELSE pc' = "done" /\ out' = Suppressed
    /\ UNCHANGED <<winvars, pass, last, env, home, fs, now, config, sso_reads, aws_profile, aws_region,
                   has_cp, has_def, duration, fs_changes>>

\* aws.rs:271-272: second operand of the gate
GateSource ==
    /\ pc = "gate_src"
    /\ LET r == has_source_profile(aws_profile, aws_config, aws_creds)
       IN  /\ has_src' = Evaluated(r.res)
           /\ aws_config' = r.cfg
           /\ aws_creds' = r.creds
           /\ pc' = IF unwrap_or_false(r.res) THEN "duration" ELSE "gate_def"
           /\ out' = out
    /\ UNCHANGED <<winvars, pass, last, env, home, fs, now, config, sso_reads, aws_profile, aws_region,
                   has_cp, has_def, duration, fs_changes>>

\* aws.rs:273-276: third operand of the gate, and the return when all three fail
GateDefined ==
    /\ pc = "gate_def"
    /\ LET r == has_defined_credentials(aws_profile, aws_creds)
       IN  /\ has_def' = Evaluated(r.res)
           /\ aws_creds' = r.creds
           /\ IF unwrap_or_false(r.res)
              THEN pc' = "duration" /\ out' = out
              ELSE pc' = "done" /\ out' = Suppressed
    /\ UNCHANGED <<winvars, pass, last, env, home, fs, now, config, aws_config, sso_reads, aws_profile,
                   aws_region, has_cp, has_src, duration, fs_changes>>

\* the expiration calculator left out when force_display is on
Duration_OnlyWhenGated ==
    /\ pc = "duration"
    /\ LET r == IF config.force_display
                THEN [res |-> None, cfg |-> aws_config, creds |-> aws_creds, read |-> 0]
                ELSE get_credentials_duration(aws_profile, aws_config, aws_creds)
       IN  /\ duration' = r.res
           /\ aws_config' = r.cfg
           /\ aws_creds' = r.creds
           /\ sso_reads' = sso_reads + r.read
    /\ pc' = "emit"
    /\ UNCHANGED <<winvars, pass, last, env, home, fs, now, config, aws_profile, aws_region, has_cp, has_src,
                   has_def, fs_changes, out>>

\* aws.rs:278-279: the expiration calculator
Duration ==
    /\ pc = "duration"
    /\ LET r == get_credentials_duration(aws_profile, aws_config, aws_creds)
       IN  /\ duration' = r.res
           /\ aws_config' = r.cfg
           /\ aws_creds' = r.creds
           /\ sso_reads' = sso_reads + r.read
    /\ pc' = "emit"
    /\ UNCHANGED <<winvars, pass, last, env, home, fs, now, config, aws_profile, aws_region, has_cp, has_src,
                   has_def, fs_changes, out>>

\* aws.rs:280-311: rendering, alias mapping and the hand-over to the formatter
Emit ==
    /\ pc = "emit"
    /\ out' = [kind |-> "emitted",
               profile |-> alias_name(aws_profile, config.profile_aliases),
               region |-> alias_name(aws_region, config.region_aliases),
               duration |-> render_duration(duration)]
    /\ pc' = "done"
    /\ UNCHANGED <<winvars, pass, last, env, home, fs, now, config, aws_config, aws_creds, sso_reads,
                   aws_profile, aws_region, has_cp, has_src, has_def, duration,
                   fs_changes>>

Next == Select \/ GateProcess \/ GateSource \/ GateDefined \/ Duration \/ Emit

MaxFsChanges == 1

Missing == [kind |-> "missing", data |-> << >>]

Directory == [kind |-> "dir", data |-> << >>]

Garbage == [kind |-> "garbage", data |-> << >>]

IniFile(ini) == [kind |-> "ini", data |-> ini]

JsonFile(obj) == [kind |-> "json", data |-> obj]

\* what another process may leave at the path of an ini file while the pass runs
RewrittenFiles ==
    {Missing, Garbage,
     IniFile([default |-> [region |-> "eu-west-1", credential_process |-> "/bin/true"]]),
     IniFile([default |-> [aws_access_key_id |-> "rotated"],
              astronauts |-> [aws_access_key_id |-> "rotated"]])}

\* the environment of the pass: a file is rewritten, removed or created while
\* module() runs
FsChange ==
    /\ pc # "done"
    /\ fs_changes < MaxFsChanges
    /\ \E path \in DOMAIN fs, f \in RewrittenFiles :
           /\ fs[path] # f
           /\ fs' = [fs EXCEPT ![path] = f]
    /\ fs_changes' = fs_changes + 1
    /\ UNCHANGED <<winvars, pass, last, env, home, now, config, aws_config, aws_creds, sso_reads, pc,
                   aws_profile, aws_region, has_cp, has_src, has_def, duration, out>>

\* the environment of the pass: a path-override variable is set while module() runs
PathChange ==
    /\ pc # "done"
    /\ fs_changes < MaxFsChanges
    /\ \E v \in {"AWS_CONFIG_FILE", "AWS_SHARED_CREDENTIALS_FILE"} :
           /\ env[v] = None
           /\ env' = [env EXCEPT ![v] = Some("/tmp/elsewhere")]
    /\ fs_changes' = fs_changes + 1
    /\ UNCHANGED <<winvars, pass, last, home, fs, now, config, aws_config, aws_creds, sso_reads, pc,
                   aws_profile, aws_region, has_cp, has_src, has_def, duration, out>>

NextFs == Next \/ FsChange \/ PathChange

(***************************************************************************)
(* The next prompt render: module() is called again                        *)
(***************************************************************************)
MaxPasses == 2

\* the inputs and the outcome of the pass that has just finished
Finished ==
    [env |-> env, fs |-> fs, now |-> now, config |-> config,
     profile |-> aws_profile, region |-> aws_region, duration |-> duration, out |-> out]

\* module() entered again with the cells of the previous call still in place
Rerender_KeepsCells ==
    /\ pc = "done"
    /\ pass < MaxPasses
    /\ pass' = pass + 1
    /\ last' = Some(Finished)
    /\ UNCHANGED <<aws_config, aws_creds>>
    /\ sso_reads' = 0
    /\ pc' = "select"
    /\ aws_profile' = None
    /\ aws_region' = None
    /\ has_cp' = Unevaluated
    /\ has_src' = Unevaluated
    /\ has_def' = Unevaluated
    /\ duration' = None
    /\ out' = Running
    /\ UNCHANGED winvars

\* aws.rs:255-260: module() is entered again; its cells and locals are new
Rerender ==
    /\ pc = "done"
    /\ pass < MaxPasses
    /\ pass' = pass + 1
    /\ last' = Some(Finished)
    /\ aws_config' = EmptyCell
    /\ aws_creds' = EmptyCell
    /\ sso_reads' = 0
    /\ pc' = "select"
    /\ aws_profile' = None
    /\ aws_region' = None
    /\ has_cp' = Unevaluated
    /\ has_src' = Unevaluated
    /\ has_def' = Unevaluated
    /\ duration' = None
    /\ out' = Running
    /\ UNCHANGED winvars

\* the next render over the same environment, files, configuration and clock
NextPass ==
    /\ Rerender
    /\ UNCHANGED <<env, home, fs, now, config, fs_changes>>

\* the alias tables a user may configure
AliasTables ==
    {[profile |-> << >>, region |-> << >>],
     [profile |-> [astronauts |-> "astro", astro |-> "chained"],
      region |-> ("ap-northeast-2" :> "an2") @@ ("an2" :> "chained")
                     @@ ("us-east-2" :> "ue2")],
     [profile |-> ("Astronauts" :> "wrong-case") @@ ("ap-northeast-2" :> "wrong-table")
                      @@ ("us-east-2" :> "wrong-table"),
      region |-> [astronauts |-> "wrong-table"]]}

\* the next render after the alias tables of the configuration were edited
Reconfigure ==
    /\ Rerender
    /\ \E a \in AliasTables :
           /\ <<a.profile, a.region>> # <<config.profile_aliases, config.region_aliases>>
           /\ config' = [config EXCEPT !.profile_aliases = a.profile,
                                       !.region_aliases = a.region]
    /\ UNCHANGED <<env, home, fs, now, fs_changes>>

Unusable == {Missing, Directory, Garbage}

\* the next render after an unusable config or credentials file became unusable
\* in another way
ReplaceUnusable ==
    /\ Rerender
    /\ \E path \in DOMAIN fs, f \in Unusable :
           /\ path[2] \in {".aws/config", ".aws/credentials"}
           /\ fs[path] \in Unusable
           /\ fs[path] # f
           /\ fs' = [fs EXCEPT ![path] = f]
    /\ UNCHANGED <<env, home, now, config, fs_changes>>

\* the next render after force_display was switched in the configuration
ToggleForceDisplay ==
    /\ Rerender
    /\ config' = [config EXCEPT !.force_display = ~config.force_display]
    /\ UNCHANGED <<env, home, fs, now, fs_changes>>

NextTwo == Next \/ NextPass \/ Reconfigure \/ ReplaceUnusable \/ ToggleForceDisplay

(***************************************************************************)
(* Initial states: the inputs of one pass, drawn from bounded sets          *)
(***************************************************************************)
MaxEntries == 3

\* the environments that set each variable v of V to a value of c[v] or not at
\* all, and no other variable
RECURSIVE EnvsOver(_, _)
EnvsOver(c, V) ==
    IF V = {} THEN {[v \in EnvVars |-> None]}
    ELSE LET v == CHOOSE v \in V : TRUE
         IN  {[e EXCEPT ![v] = x] :
                  e \in EnvsOver(c, V \ {v}), x \in {None} \cup {Some(y) : y \in c[v]}}

Envs(c) == EnvsOver(c, DOMAIN c)

\* the subsets of S with at most n elements
RECURSIVE SubsetsUpTo(_, _)
SubsetsUpTo(S, n) ==
    IF S = {} \/ n = 0 THEN {{}}
    ELSE LET x == CHOOSE x \in S : TRUE
         IN  SubsetsUpTo(S \ {x}, n) \cup {p \cup {x} : p \in SubsetsUpTo(S \ {x}, n - 1)}

\* the entries <<file, section, key, value>> of a file, for sections named in names
\* and keys k with a value of kv[k]
Entries(file, names, kv) ==
    UNION {{<<file, n, k, v>> : v \in kv[k]} : n \in names, k \in DOMAIN kv}

\* no key is given twice in a section
WellFormed(E) ==
    \A e1, e2 \in E : (e1[1] = e2[1] /\ e1[2] = e2[2] /\ e1[3] = e2[3]) => e1 = e2

\* the ini made of the entries of E that belong to file
IniOf(E, file) ==
    LET F == {e \in E : e[1] = file}
    IN  [n \in {e[2] : e \in F} |->
            [k \in {e[3] : e \in {x \in F : x[2] = n}} |->
                (CHOOSE e \in F : e[2] = n /\ e[3] = k)[4]]]

HomeDir == <<"/home/astronaut">>

HomeConfig == push(HomeDir, ".aws/config")

HomeCreds == push(HomeDir, ".aws/credentials")

DefaultConfig ==
    [force_display |-> FALSE, expiration_symbol |-> "X",
     profile_aliases |-> << >>, region_aliases |-> << >>]

ConfigKeys ==
    [region |-> {"us-east-2"},
     credential_process |-> {"/opt/bin/awscreds-retriever"},
     sso_session |-> {"my-sso"},
     sso_start_url |-> {"https://starship.rs/sso"},
     source_profile |-> {"starship", "default"}]

ConfigSectionNames == {"default", "profile astronauts", "profile starship"}

CredsKeys ==
    [aws_access_key_id |-> {"dummy"},
     credential_process |-> {"/opt/bin/awscreds-for-tests"},
     sso_start_url |-> {"https://starship.rs/sso"}]

CredsSectionNames == {"default", "astronauts", "starship"}

\* the file written from the entries of E, or no file at all when there are none
FilesOf(E, file) ==
    {IniFile(IniOf(E, file))} \cup (IF \E e \in E : e[1] = file THEN {} ELSE {Missing})

\* the (config, credentials) contents made of at most n entries of U
Snapshots(U, n) ==
    UNION {FilesOf(E, "config") \X FilesOf(E, "credentials")
           : E \in {E \in SubsetsUpTo(U, n) : WellFormed(E)}}

(***************************************************************************)
(* is_write_allowed of src/modules/utils/directory_win.rs: the write       *)
(* access check of a folder on Windows.  Every call into the Windows API   *)
(* is one step; its outcome is chosen by the system.                       *)
(***************************************************************************)

\* std::result::Result<bool, String>
Ok(b) == [kind |-> "Ok", value |-> b, error |-> ""]

Err(e) == [kind |-> "Err", value |-> FALSE, error |-> e]

\* one call of the Windows API: the handle it was given, what it returned and
\* what it wrote through its output parameter
Call(api, arg, rc, res) == [api |-> api, arg |-> arg, rc |-> rc, out |-> res]

MaxLength == 2

\* what GetLastError may hold after a failed call
ErrorCodes == {"ERROR_INSUFFICIENT_BUFFER", "ERROR_ACCESS_DENIED"}

ReturnCodes == {"ERROR_SUCCESS"} \cup ErrorCodes

\* the values the system may give to a new handle
HandleValues == {"0x4", "0x8", "0xc"}

\* directory_win.rs:37-46: a network path is taken to be writable
NetworkPath ==
    /\ wpc = "start"
    /\ \E net \in BOOLEAN :
           /\ calls' = Append(calls, Call("PathIsNetworkPathW", "",
                                           IF net THEN "TRUE" ELSE "FALSE", ""))
           /\ IF net
              THEN ret' = Some(Ok(TRUE)) /\ wpc' = "returned"
              ELSE ret' = ret /\ wpc' = "size"
    /\ UNCHANGED <<awsvars, length, token, impersonated_token, result, handles, logged>>

\* the size query taking a success for the size as well
SizeQuery_AcceptsSuccess ==
    /\ wpc = "size"
    /\ \E rc \in ReturnCodes, n \in 1..MaxLength :
           /\ calls' = Append(calls, Call("GetFileSecurityW", "", rc, ""))
           /\ IF rc \in {"ERROR_INSUFFICIENT_BUFFER", "ERROR_SUCCESS"}
              THEN /\ length' = IF rc = "ERROR_SUCCESS" THEN length ELSE n
                   /\ ret' = ret
                   /\ wpc' = "descriptor"
              ELSE /\ length' = length
                   /\ ret' = Some(Err("GetFileSecurityW returned unexpected return value when asked for the security descriptor size"))
                   /\ wpc' = "returned"
    /\ UNCHANGED <<awsvars, token, impersonated_token, result, handles, logged>>

\* directory_win.rs:48-68: GetFileSecurityW without a buffer, asked for the size
\* of the security descriptor; only ERROR_INSUFFICIENT_BUFFER is expected
SizeQuery ==
    /\ wpc = "size"
    /\ \E rc \in ReturnCodes, n \in 1..MaxLength :
           /\ calls' = Append(calls, Call("GetFileSecurityW", "", rc, ""))
           /\ IF rc = "ERROR_INSUFFICIENT_BUFFER"
              THEN /\ length' = n
                   /\ ret' = ret
                   /\ wpc' = "descriptor"
              ELSE /\ length' = length
                   /\ ret' = Some(Err("GetFileSecurityW returned unexpected return value when asked for the security descriptor size"))
                   /\ wpc' = "returned"
    /\ UNCHANGED <<awsvars, token, impersonated_token, result, handles, logged>>

\* directory_win.rs:70-87: GetFileSecurityW into a buffer of length bytes
DescriptorQuery ==
    /\ wpc = "descriptor"
    /\ \E rc \in ReturnCodes :
           /\ calls' = Append(calls, Call("GetFileSecurityW", "", rc, ""))
           /\ IF rc = "ERROR_SUCCESS"
              THEN ret' = ret /\ wpc' = "open"
              ELSE /\ ret' = Some(Err("GetFileSecurityW failed to retrieve the security descriptor"))
                   /\ wpc' = "returned"
    /\ UNCHANGED <<awsvars, length, token, impersonated_token, result, handles, logged>>

\* directory_win.rs:89-106: the token of the process, wrapped in a Handle once
\* it is open
OpenProcessToken ==
    /\ wpc = "open"
    /\ \E rc \in ReturnCodes, h \in HandleValues \ handles :
           IF rc = "ERROR_SUCCESS"
           THEN /\ calls' = Append(calls, Call("OpenProcessToken", "", rc, h))
                /\ handles' = handles \cup {h}
                /\ token' = Some(h)
                /\ ret' = ret
                /\ wpc' = "duplicate"
           ELSE /\ calls' = Append(calls, Call("OpenProcessToken", "", rc, ""))
                /\ handles' = handles
                /\ token' = token
                /\ ret' = Some(Err("OpenProcessToken failed to retrieve current process' security token"))
                /\ wpc' = "returned"
    /\ UNCHANGED <<awsvars, length, impersonated_token, result, logged>>

\* DuplicateToken returning on an error without dropping the process token
DuplicateToken_LeaksOnError ==
    /\ wpc = "duplicate"
    /\ \E rc \in ReturnCodes, h \in HandleValues \ handles :
           IF rc = "ERROR_SUCCESS"
           THEN /\ calls' = Append(calls, Call("DuplicateToken", token[1], rc, h))
                /\ handles' = handles \cup {h}
                /\ impersonated_token' = Some(h)
                /\ ret' = ret
                /\ wpc' = "check"
           ELSE /\ calls' = Append(calls, Call("DuplicateToken", token[1], rc, ""))
                /\ handles' = handles
                /\ impersonated_token' = impersonated_token
                /\ ret' = Some(Err("DuplicateToken failed"))
                /\ wpc' = "returned"
    /\ UNCHANGED <<awsvars, length, token, result, logged>>

\* directory_win.rs:108-117: the impersonation token, wrapped in a Handle once it
\* is open; the return on an error drops the process token
DuplicateToken ==
    /\ wpc = "duplicate"
    /\ \E rc \in ReturnCodes, h \in HandleValues \ handles :
           IF rc = "ERROR_SUCCESS"
           THEN /\ calls' = Append(calls, Call("DuplicateToken", token[1], rc, h))
                /\ handles' = handles \cup {h}
                /\ impersonated_token' = Some(h)
                /\ ret' = ret
                /\ wpc' = "check"
           ELSE /\ calls' = Append(calls, Call("DuplicateToken", token[1], rc, ""))
                /\ handles' = handles
                /\ impersonated_token' = impersonated_token
                /\ ret' = Some(Err("DuplicateToken failed"))
                /\ wpc' = "drop"
    /\ UNCHANGED <<awsvars, length, token, result, logged>>

\* directory_win.rs:119-149: AccessCheck of FILE_GENERIC_WRITE with the
\* impersonation token; both returns drop the two handles
AccessCheck ==
    /\ wpc = "check"
    /\ \E rc \in ReturnCodes, b \in BOOLEAN :
           IF rc = "ERROR_SUCCESS"
           THEN /\ calls' = Append(calls, Call("AccessCheck", impersonated_token[1], rc,
                                               IF b THEN "TRUE" ELSE "FALSE"))
                /\ result' = b
                /\ ret' = Some(Ok(result'))
           ELSE /\ calls' = Append(calls, Call("AccessCheck", impersonated_token[1], rc, ""))
                /\ result' = result
                /\ ret' = Some(Err("AccessCheck failed"))
    /\ wpc' = "drop"
    /\ UNCHANGED <<awsvars, length, token, impersonated_token, handles, logged>>

\* directory_win.rs:23-29: Handle::drop, run for the live handles in the reverse
\* order of their declaration before the function returns; a failure of
\* CloseHandle is logged
drop ==
    /\ wpc = "drop"
    /\ LET h == IF impersonated_token # None THEN impersonated_token[1] ELSE token[1]
       IN  \E rc \in {"ERROR_SUCCESS", "ERROR_INVALID_HANDLE"} :
               /\ calls' = Append(calls, Call("CloseHandle", h, rc, ""))
               /\ handles' = IF rc = "ERROR_SUCCESS" THEN handles \ {h} ELSE handles
               /\ logged' = IF rc = "ERROR_SUCCESS" THEN logged ELSE logged + 1
    /\ IF impersonated_token # None
       THEN impersonated_token' = None /\ token' = token /\ wpc' = "drop"
       ELSE impersonated_token' = impersonated_token /\ token' = None /\ wpc' = "returned"
    /\ UNCHANGED <<awsvars, length, result, ret>>

NextWin ==
    \/ NetworkPath
    \/ SizeQuery
    \/ DescriptorQuery
    \/ OpenProcessToken
    \/ DuplicateToken
    \/ AccessCheck
    \/ drop

\* the locals of is_write_allowed on entry, and the process without a handle
\* of its making
Entered ==
    /\ length = 0
    /\ token = None
    /\ impersonated_token = None
    /\ result = FALSE
    /\ handles = {}
    /\ calls = << >>
    /\ logged = 0
    /\ ret = None

\* is_write_allowed is not called
NotCalled ==
    /\ wpc = "idle"
    /\ Entered

\* the state of module() on entry: aws.rs:256-260
PassStart ==
    /\ aws_config = EmptyCell
    /\ aws_creds = EmptyCell
    /\ sso_reads = 0
    /\ pc = "select"
    /\ aws_profile = None
    /\ aws_region = None
    /\ has_cp = Unevaluated
    /\ has_src = Unevaluated
    /\ has_def = Unevaluated
    /\ duration = None
    /\ fs_changes = 0
    /\ out = Running

\* the first prompt render
FirstPass ==
    /\ pass = 1
    /\ last = None

GateEnvs ==
    Envs([AWS_PROFILE |-> {"astronauts"}, AWS_REGION |-> {"ap-northeast-2"},
          AWS_ACCESS_KEY_ID |-> {"dummy"}])

GateSnapshots ==
    Snapshots(Entries("config", ConfigSectionNames, ConfigKeys)
                  \cup Entries("credentials", CredsSectionNames, CredsKeys),
              MaxEntries)

\* passes over the files under the home directory, with or without a profile,
\* an access key and force_display
Init ==
    /\ env \in GateEnvs
    /\ home = Some(HomeDir)
    /\ \E s \in GateSnapshots : fs = (HomeConfig :> s[1]) @@ (HomeCreds :> s[2])
    /\ now = 1200
    /\ \E f \in BOOLEAN : config = [DefaultConfig EXCEPT !.force_display = f]
    /\ PassStart
    /\ FirstPass
    /\ NotCalled

Spec == Init /\ [][Next]_vars

\* passes with every combination of the profile and region variables, over
\* config files that give regions to the default and the named profiles
EnvEnvs ==
    Envs([AWSU_PROFILE |-> {"astronauts-awsu"},
          AWS_VAULT |-> {"astronauts-vault"},
          AWSUME_PROFILE |-> {"astronauts-awsume"},
          AWS_PROFILE |-> {"astronauts", "default"},
          AWS_SSO_PROFILE |-> {"astronauts-awsssocli"},
          AWS_REGION |-> {"ap-northeast-2"},
          AWS_DEFAULT_REGION |-> {"ap-northeast-1"},
          AWS_ACCESS_KEY_ID |-> {"dummy"}])

EnvSnapshots ==
    Snapshots(Entries("config",
                      {"default", "profile default", "profile astronauts",
                       "profile astronauts-vault"},
                      [region |-> {"us-east-1", "us-east-2"}])
                  \cup Entries("credentials", {"default", "astronauts"},
                               [aws_access_key_id |-> {"dummy"}]),
              MaxEntries)

InitEnv ==
    /\ env \in EnvEnvs
    /\ home = Some(HomeDir)
    /\ \E s \in EnvSnapshots : fs = (HomeConfig :> s[1]) @@ (HomeCreds :> s[2])
    /\ now = 1200
    /\ config = DefaultConfig
    /\ PassStart
    /\ FirstPass
    /\ NotCalled

SpecEnv == InitEnv /\ [][Next]_vars

\* passes with expiry timestamps in the environment, the credentials file and
\* the SSO cache
ExpEnvs ==
    {e \in Envs([AWS_PROFILE |-> {"astronauts"},
                 AWS_REGION |-> {"ap-northeast-2"},
                 AWS_CREDENTIAL_EXPIRATION |-> {"1970-01-01T00:10:00Z", "tomorrow"},
                 AWS_SESSION_EXPIRATION |-> {"1970-01-01T00:30:00Z"},
                 AWSUME_EXPIRATION |-> {"1970-01-01T01:20:00+01:00"}]) :
        e["AWS_REGION"] # None}

ExpSnapshots ==
    Snapshots(Entries("config", {"default", "profile astronauts"},
                      [sso_start_url |-> {"https://starship.rs/sso"}])
                  \cup Entries("credentials", {"default", "astronauts"},
                               [expiration |-> {"1970-01-01T00:30:00Z", "never"},
                                x_security_token_expires |-> {"1970-01-01T00:10:00Z"},
                                aws_access_key_id |-> {"dummy"}]),
              MaxEntries)

HomeSsoCache(url) == push(HomeDir, ".aws/sso/cache/" \o sha1_hex(url) \o ".json")

JsonString(s) == [type |-> "string", str |-> s]

JsonNumber(s) == [type |-> "number", str |-> s]

SsoCacheFiles ==
    {Missing, Garbage,
     JsonFile([accessToken |-> JsonString("token")]),
     JsonFile([expiresAt |-> JsonNumber("600")]),
     JsonFile([expiresAt |-> JsonString("soon")]),
     JsonFile([expiresAt |-> JsonString("1970-01-01T00:10:00Z")])}

InitExp ==
    /\ env \in ExpEnvs
    /\ home = Some(HomeDir)
    /\ \E s \in ExpSnapshots, j \in SsoCacheFiles :
           fs = (HomeConfig :> s[1]) @@ (HomeCreds :> s[2])
                    @@ (HomeSsoCache("https://starship.rs/sso") :> j)
    /\ now = 1200
    /\ \E f \in BOOLEAN : config = [DefaultConfig EXCEPT !.force_display = f]
    /\ PassStart
    /\ FirstPass
    /\ NotCalled

SpecExp == InitExp /\ [][Next]_vars

\* passes during which the files and the path-override variables change
FsSnapshots ==
    Snapshots(Entries("config", {"default", "profile astronauts"},
                      [region |-> {"us-east-2"}, source_profile |-> {"starship"},
                       sso_start_url |-> {"https://starship.rs/sso"}])
                  \cup Entries("credentials", {"astronauts", "starship"},
                               [aws_access_key_id |-> {"dummy"}]),
              MaxEntries)

InitFs ==
    /\ env \in GateEnvs
    /\ home = Some(HomeDir)
    /\ \E s \in FsSnapshots :
           fs = (HomeConfig :> s[1]) @@ (HomeCreds :> s[2])
                    @@ (HomeSsoCache("https://starship.rs/sso") :> Missing)
    /\ now = 1200
    /\ config = DefaultConfig
    /\ PassStart
    /\ FirstPass
    /\ NotCalled

SpecFs == InitFs /\ [][NextFs]_vars

\* passes that reach the gate with every combination of the three access-key
\* variables, over credentials files with and without an access key id
KeysEnvs ==
    {e \in Envs([AWS_PROFILE |-> {"astronauts"},
                 AWS_REGION |-> {"ap-northeast-2"},
                 AWS_ACCESS_KEY_ID |-> {"dummy"},
                 AWS_SECRET_ACCESS_KEY |-> {"dummy"},
                 AWS_SESSION_TOKEN |-> {"dummy"}]) :
        e["AWS_REGION"] # None}

KeysSnapshots ==
    Snapshots(Entries("config", {"default", "profile astronauts"},
                      [region |-> {"us-east-2"}])
                  \cup Entries("credentials", {"default", "astronauts"},
                               [aws_access_key_id |-> {"dummy"},
                                aws_secret_access_key |-> {"dummy"}]),
              MaxEntries)

InitKeys ==
    /\ env \in KeysEnvs
    /\ home = Some(HomeDir)
    /\ \E s \in KeysSnapshots : fs = (HomeConfig :> s[1]) @@ (HomeCreds :> s[2])
    /\ now = 1200
    /\ config = DefaultConfig
    /\ PassStart
    /\ FirstPass
    /\ NotCalled

SpecKeys == InitKeys /\ [][Next]_vars

\* two renders in a row, over files that name the profile and its alias, with
\* unusable files and with alias tables
TwoSnapshots ==
    Snapshots(Entries("config", {"profile astronauts", "profile astro"},
                      [region |-> {"us-east-2"},
                       sso_start_url |-> {"https://starship.rs/sso"}])
                  \cup Entries("config", {"default"}, [region |-> {"us-east-2"}])
                  \cup Entries("credentials", {"astronauts", "astro"},
                               [aws_access_key_id |-> {"dummy"}]),
              MaxEntries)

\* a file that is not there may as well be a directory or unparseable
OrUnusable(f) == IF f = Missing THEN Unusable ELSE {f}

TwoEnvs == Envs([AWS_PROFILE |-> {"astronauts"}, AWS_REGION |-> {"ap-northeast-2"}])

InitTwo ==
    /\ env \in TwoEnvs
    /\ home = Some(HomeDir)
    /\ \E s \in TwoSnapshots :
       \E c \in OrUnusable(s[1]), k \in OrUnusable(s[2]),
          j \in {Missing, JsonFile([expiresAt |-> JsonString("1970-01-01T00:10:00Z")])} :
           fs = (HomeConfig :> c) @@ (HomeCreds :> k)
                    @@ (HomeSsoCache("https://starship.rs/sso") :> j)
    /\ now = 1200
    /\ \E f \in BOOLEAN, a \in AliasTables :
           config = [DefaultConfig EXCEPT !.force_display = f,
                                          !.profile_aliases = a.profile,
                                          !.region_aliases = a.region]
    /\ PassStart
    /\ FirstPass
    /\ NotCalled

SpecTwo == InitTwo /\ [][NextTwo]_vars

\* passes with the path-override variables unset, empty or naming a file, over
\* files of different contents under the home directory and at the named paths
PathEnvs ==
    {e \in Envs([AWS_PROFILE |-> {"astronauts"},
                 AWS_REGION |-> {"ap-northeast-2"},
                 AWS_CONFIG_FILE |-> {"", "/etc/aws/config"},
                 AWS_SHARED_CREDENTIALS_FILE |-> {"", "/etc/aws/shared"},
                 AWS_CREDENTIALS_FILE |-> {"", "/etc/aws/credentials"}]) :
        e["AWS_REGION"] # None}

HomeConfigFiles ==
    {Missing, IniFile([default |-> [credential_process |-> "home"]])}

OverrideConfigFiles ==
    {Directory, IniFile(("profile astronauts" :> [sso_session |-> "override"]))}

HomeCredsFiles ==
    {Missing, IniFile([default |-> [aws_access_key_id |-> "home"]])}

SharedCredsFiles ==
    {Garbage, IniFile([astronauts |-> [aws_access_key_id |-> "shared"]])}

OverrideCredsFiles ==
    {Missing, IniFile([default |-> [aws_access_key_id |-> "credentials"],
                       astronauts |-> [aws_access_key_id |-> "credentials"]])}

InitPath ==
    /\ env \in PathEnvs
    /\ home = Some(HomeDir)
    /\ \E c \in HomeConfigFiles, oc \in OverrideConfigFiles, k \in HomeCredsFiles,
          sk \in SharedCredsFiles, ok \in OverrideCredsFiles :
           fs = (HomeConfig :> c) @@ (PathBuf("/etc/aws/config") :> oc)
                    @@ (HomeCreds :> k) @@ (PathBuf("/etc/aws/shared") :> sk)
                    @@ (PathBuf("/etc/aws/credentials") :> ok)
    /\ now = 1200
    /\ config = DefaultConfig
    /\ PassStart
    /\ FirstPass
    /\ NotCalled

SpecPath == InitPath /\ [][Next]_vars

\* passes over config files with SSO settings of both kinds and over the SSO
\* cache files of two start URLs
SsoEnvs ==
    {e \in Envs([AWS_PROFILE |-> {"astronauts"}, AWS_REGION |-> {"ap-northeast-2"}]) :
        e["AWS_REGION"] # None}

SsoSnapshots ==
    Snapshots(Entries("config", {"default", "profile astronauts"},
                      [sso_start_url |-> {"https://starship.rs/sso",
                                          "https://example.com/start"},
                       sso_session |-> {"my-sso"}])
                  \cup Entries("config", {"sso-session my-sso"},
                               [sso_start_url |-> {"https://starship.rs/sso"}])
                  \cup Entries("credentials", {"default", "astronauts"},
                               [aws_access_key_id |-> {"dummy"}]),
              MaxEntries)

InitSso ==
    /\ env \in SsoEnvs
    /\ home = Some(HomeDir)
    /\ \E s \in SsoSnapshots :
       \E j1 \in {Missing, Garbage,
                  JsonFile([expiresAt |-> JsonString("1970-01-01T00:10:00Z")])},
          j2 \in {Missing, JsonFile([expiresAt |-> JsonString("1970-01-01T00:30:00Z")])} :
           fs = (HomeConfig :> s[1]) @@ (HomeCreds :> s[2])
                    @@ (HomeSsoCache("https://starship.rs/sso") :> j1)
                    @@ (HomeSsoCache("https://example.com/start") :> j2)
    /\ now = 1200
    /\ config = DefaultConfig
    /\ PassStart
    /\ FirstPass
    /\ NotCalled

SpecSso == InitSso /\ [][Next]_vars

\* one call of is_write_allowed, in a process that renders no aws module
InitWin ==
    /\ env = [v \in EnvVars |-> None]
    /\ home = Some(HomeDir)
    /\ fs = (HomeConfig :> Missing) @@ (HomeCreds :> Missing)
    /\ now = 1200
    /\ config = DefaultConfig
    /\ PassStart
    /\ FirstPass
    /\ wpc = "start"
    /\ Entered

SpecWin == InitWin /\ [][NextWin]_vars

(***************************************************************************)
(* What the files under the resolved paths say, read directly from fs       *)
(***************************************************************************)
ConfigIni ==
    LET p == get_config_file_path IN IF p = None THEN None ELSE load_from_file(p[1])

CredsIni ==
    LET p == get_credentials_file_path IN IF p = None THEN None ELSE load_from_file(p[1])

HasKey(ini, sec, key) == ini # None /\ sec \in DOMAIN ini[1] /\ key \in DOMAIN ini[1][sec]

ValueOf(ini, sec, key) == IF HasKey(ini, sec, key) THEN Some(ini[1][sec][key]) ELSE None

ConfigSectionOf(p) == IF p = None THEN "default" ELSE "profile " \o p[1]

CredsSectionOf(p) == IF p = None THEN "default" ELSE p[1]

ConfigMarkerKeys == {"credential_process", "sso_session", "sso_start_url"}

CredsMarkerKeys == {"credential_process", "sso_start_url"}

\* p's config section or p's credentials section holds a credential_process/SSO marker
Marker(p) ==
    \/ \E k \in ConfigMarkerKeys : HasKey(ConfigIni, ConfigSectionOf(p), k)
    \/ \E k \in CredsMarkerKeys : HasKey(CredsIni, CredsSectionOf(p), k)

AccessKeyInEnv ==
    \E v \in {"AWS_ACCESS_KEY_ID", "AWS_SECRET_ACCESS_KEY", "AWS_SESSION_TOKEN"} :
        env[v] # None

\* p's credentials section holds an access key id
AccessKeyInFile(p) == HasKey(CredsIni, CredsSectionOf(p), "aws_access_key_id")

ForceDisplay == config.force_display

Resolved == aws_profile # None \/ aws_region # None

(***************************************************************************)
(* C1. Display gate: when a profile or a region was resolved, the pass is   *)
(* suppressed if and only if force_display is false and each of             *)
(* has_credential_process_or_sso, has_source_profile and                    *)
(* has_defined_credentials, evaluated for the resolved profile, is false or *)
(* None; otherwise the resolved profile, region and duration are handed to  *)
(* the formatter.                                                           *)
(***************************************************************************)
C1_NoEvidence ==
    /\ ~unwrap_or_false(has_credential_process_or_sso(aws_profile, EmptyCell, EmptyCell).res)
    /\ ~unwrap_or_false(has_source_profile(aws_profile, EmptyCell, EmptyCell).res)
    /\ ~unwrap_or_false(has_defined_credentials(aws_profile, EmptyCell).res)

C1_DisplayGate ==
    (pc = "done" /\ Resolved) =>
        IF ~ForceDisplay /\ C1_NoEvidence
        THEN out.kind = "suppressed"
        ELSE /\ out.kind = "emitted"
             /\ out.profile = alias_name(aws_profile, config.profile_aliases)
             /\ out.region = alias_name(aws_region, config.region_aliases)
             /\ out.duration = render_duration(duration)

\* a pass that resolved a profile, found no evidence in any of the three
\* predicates and was suppressed
C1_Witness ==
    /\ pc = "done"
    /\ aws_profile # None
    /\ has_cp.evaluated /\ has_src.evaluated /\ has_def.evaluated
    /\ has_src.res = Some(FALSE)
    /\ out.kind = "suppressed"

\* the source_profile named in p's config section
SourceOf(p) == ValueOf(ConfigIni, ConfigSectionOf(p), "source_profile")

\* credential evidence of p itself: a marker, an access key variable or an access key id
OwnEvidence(p) == Marker(p) \/ AccessKeyInEnv \/ AccessKeyInFile(p)

(***************************************************************************)
(* C2. source_profile indirection is exactly one level: for a resolved     *)
(* profile P whose config section has source_profile = S and which has no  *)
(* credential evidence of its own, a pass with force_display false emits   *)
(* if S has an access key id or a credential_process/SSO marker and is     *)
(* suppressed if S has none, whatever S's own source_profile leads to.     *)
(***************************************************************************)
C2_OneLevel ==
    (/\ pc = "done"
     /\ Resolved
     /\ ~ForceDisplay
     /\ SourceOf(aws_profile) # None
     /\ ~OwnEvidence(aws_profile))
    => IF Marker(SourceOf(aws_profile)) \/ AccessKeyInFile(SourceOf(aws_profile))
       THEN out.kind = "emitted"
       ELSE out.kind = "suppressed"

\* P -> S -> T where only T has credential evidence: the pass is suppressed
C2_Witness ==
    /\ pc = "done"
    /\ ~ForceDisplay
    /\ SourceOf(aws_profile) # None
    /\ SourceOf(SourceOf(aws_profile)) # None
    /\ SourceOf(SourceOf(aws_profile)) # aws_profile
    /\ ~OwnEvidence(aws_profile)
    /\ ~OwnEvidence(SourceOf(aws_profile))
    /\ OwnEvidence(SourceOf(SourceOf(aws_profile)))
    /\ has_src.res = Some(FALSE)
    /\ out.kind = "suppressed"

\* P -> S where S has credential evidence and P has none: the pass is emitted
C2_WitnessShown ==
    /\ pc = "done"
    /\ ~ForceDisplay
    /\ SourceOf(aws_profile) # None
    /\ ~OwnEvidence(aws_profile)
    /\ has_src.res = Some(TRUE)
    /\ out.kind = "emitted"

(***************************************************************************)
(* C3. The source-profile predicate looks at another profile only if the   *)
(* resolved profile's config section has a source_profile key: for a named *)
(* profile whose section exists without that key, has_source_profile does  *)
(* not hold.                                                               *)
(***************************************************************************)
C3_NoSourceProfileNoHold ==
    (/\ has_src.evaluated
     /\ aws_profile # None
     /\ ConfigIni # None
     /\ ConfigSectionOf(aws_profile) \in DOMAIN ConfigIni[1]
     /\ SourceOf(aws_profile) = None)
    => ~unwrap_or_false(has_src.res)

(***************************************************************************)
(* C5. With no profile variable and no region variable set and no          *)
(* credential_process/sso_session/sso_start_url key in any section of      *)
(* either file, a pass with force_display false is suppressed, whatever    *)
(* else the files contain.                                                 *)
(***************************************************************************)
NoProfileOrRegionInEnv ==
    \A v \in {"AWSU_PROFILE", "AWS_VAULT", "AWSUME_PROFILE", "AWS_PROFILE",
              "AWS_SSO_PROFILE", "AWS_REGION", "AWS_DEFAULT_REGION"} : env[v] = None

KeyAnywhere(ini, keys) ==
    ini # None /\ \E sec \in DOMAIN ini[1] : \E k \in keys : k \in DOMAIN ini[1][sec]

NoMarkerAnywhere ==
    /\ ~KeyAnywhere(ConfigIni, ConfigMarkerKeys)
    /\ ~KeyAnywhere(CredsIni, ConfigMarkerKeys)

C5_Original ==
    (pc = "done" /\ ~ForceDisplay /\ NoProfileOrRegionInEnv /\ NoMarkerAnywhere)
    => out.kind = "suppressed"

\* C5 as amended: also with none of the access key variables set and no
\* aws_access_key_id key in any section of the credentials file
C5_SuppressedWithoutEvidence ==
    (/\ pc = "done"
     /\ ~ForceDisplay
     /\ NoProfileOrRegionInEnv
     /\ NoMarkerAnywhere
     /\ ~AccessKeyInEnv
     /\ ~KeyAnywhere(CredsIni, {"aws_access_key_id"}))
    => out.kind = "suppressed"

\* nothing in the environment, a region and a source_profile in [default], no
\* evidence anywhere: the gate ran to its end and suppressed the pass
C5_Witness ==
    /\ pc = "done"
    /\ ~ForceDisplay
    /\ NoProfileOrRegionInEnv
    /\ NoMarkerAnywhere
    /\ ~AccessKeyInEnv
    /\ ~KeyAnywhere(CredsIni, {"aws_access_key_id"})
    /\ aws_region # None
    /\ SourceOf(None) # None
    /\ has_def.evaluated
    /\ out.kind = "suppressed"

(***************************************************************************)
(* C10. has_credential_process_or_sso(P) is Some(true) exactly when P's    *)
(* config section contains credential_process, sso_session or              *)
(* sso_start_url, or P's credentials section contains credential_process   *)
(* or sso_start_url; missing config data does not prevent the credentials  *)
(* side from being checked.                                                *)
(***************************************************************************)
C10_MarkerExactly ==
    has_cp.evaluated => (unwrap_or_false(has_cp.res) <=> Marker(aws_profile))

(***************************************************************************)
(* C4. Expiration fall-through: a source that fails to yield a parseable   *)
(* timestamp falls through to the next one in the order environment ->     *)
(* credentials file -> SSO cache, and the result is None only if all three *)
(* fail.                                                                   *)
(***************************************************************************)
\* the value of the first set variable of names
FirstSet(names) ==
    IF \A i \in DOMAIN names : env[names[i]] = None THEN None
    ELSE env[names[CHOOSE i \in DOMAIN names :
                       /\ env[names[i]] # None
                       /\ \A j \in 1..(i - 1) : env[names[j]] = None]]

ExpiryFromEnv ==
    LET v == FirstSet(<<"AWS_CREDENTIAL_EXPIRATION", "AWS_SESSION_EXPIRATION",
                        "AWSUME_EXPIRATION">>)
    IN  IF v = None THEN None ELSE parse_from_rfc3339(v[1])

ExpiryFromCreds ==
    LET sec == CredsSectionOf(aws_profile)
        e == ValueOf(CredsIni, sec, "expiration")
        x == ValueOf(CredsIni, sec, "x_security_token_expires")
        v == IF e # None THEN e ELSE x
    IN  IF v = None THEN None ELSE parse_from_rfc3339(v[1])

ExpiryFromSso == sso_expiration(aws_profile, EmptyCell).res

C4_FallThrough ==
    pc = "emit" =>
        duration = IF ExpiryFromEnv # None THEN Some(ExpiryFromEnv[1] - now)
                   ELSE IF ExpiryFromCreds # None THEN Some(ExpiryFromCreds[1] - now)
                   ELSE IF ExpiryFromSso # None THEN Some(ExpiryFromSso[1] - now)
                   ELSE None

(***************************************************************************)
(* C6. Load-once cache: within one pass each of the config file, the       *)
(* credentials file and the SSO cache file is read at most once, and once  *)
(* a cell is initialised its value never changes, whatever happens to the  *)
(* file afterwards.                                                        *)
(***************************************************************************)
C6_LoadOnce ==
    /\ [](aws_config.reads <= 1 /\ aws_creds.reads <= 1 /\ sso_reads <= 1)
    /\ [][/\ aws_config.init => aws_config' = aws_config
          /\ aws_creds.init => aws_creds' = aws_creds]_vars

\* a finished pass whose gate ran to its end on cells that no longer agree with
\* the files, each read once
C6_Witness ==
    /\ pc = "done"
    /\ fs_changes > 0
    /\ has_cp.evaluated /\ has_src.evaluated /\ has_def.evaluated
    /\ aws_config.init /\ aws_config.reads = 1 /\ aws_config.val # ConfigIni
    /\ aws_creds.init /\ aws_creds.reads = 1

(***************************************************************************)
(* C7. Section naming asymmetry: the config section of None is "default"   *)
(* and that of Some(p) is "profile p", also for p = "default"; the         *)
(* credentials section of None is "default" and that of Some(p) is p.      *)
(***************************************************************************)
C7_SectionNaming ==
    /\ (pc # "select" /\ env["AWS_REGION"] = None /\ env["AWS_DEFAULT_REGION"] = None)
       => aws_region = ValueOf(ConfigIni,
                               IF aws_profile = None THEN "default"
                               ELSE "profile " \o aws_profile[1],
                               "region")
    /\ (has_def.evaluated /\ ~AccessKeyInEnv)
       => (unwrap_or_false(has_def.res)
           <=> HasKey(CredsIni,
                      IF aws_profile = None THEN "default" ELSE aws_profile[1],
                      "aws_access_key_id"))

\* profile "default" selected, [default] and [profile default] give different
\* regions: the region is the one of [profile default]
C7_Witness ==
    /\ pc = "done"
    /\ aws_profile = Some("default")
    /\ HasKey(ConfigIni, "default", "region")
    /\ HasKey(ConfigIni, "profile default", "region")
    /\ ConfigIni[1]["default"]["region"] # ConfigIni[1]["profile default"]["region"]
    /\ aws_region = Some(ConfigIni[1]["profile default"]["region"])
    /\ out.kind = "emitted"

\* no profile selected, [default] and [profile astronauts] give different
\* regions: the region is the one of [default]
C7_WitnessDefault ==
    /\ pc # "select"
    /\ aws_profile = None
    /\ HasKey(ConfigIni, "default", "region")
    /\ HasKey(ConfigIni, "profile astronauts", "region")
    /\ ConfigIni[1]["default"]["region"] # ConfigIni[1]["profile astronauts"]["region"]
    /\ aws_region = Some(ConfigIni[1]["default"]["region"])

(***************************************************************************)
(* C8. The selector returns the environment profile or None, never a       *)
(* profile from a file, and as region the environment region if one is     *)
(* set, otherwise the region key of the config section of that profile,    *)
(* otherwise None; with a region variable set it leaves the config cell    *)
(* uninitialised.                                                          *)
(***************************************************************************)
ProfileVarsSet ==
    {v \in {"AWSU_PROFILE", "AWS_VAULT", "AWSUME_PROFILE", "AWS_PROFILE",
            "AWS_SSO_PROFILE"} : env[v] # None}

RegionVarsSet == {v \in {"AWS_REGION", "AWS_DEFAULT_REGION"} : env[v] # None}

C8_Selector ==
    pc # "select" =>
        /\ IF ProfileVarsSet = {} THEN aws_profile = None
           ELSE aws_profile \in {env[v] : v \in ProfileVarsSet}
        /\ IF RegionVarsSet # {} THEN aws_region \in {env[v] : v \in RegionVarsSet}
           ELSE aws_region = ValueOf(ConfigIni, ConfigSectionOf(aws_profile), "region")
        /\ (RegionVarsSet # {} /\ pc = "gate_cp") => aws_config = EmptyCell
        /\ (RegionVarsSet = {} /\ pc = "gate_cp") => aws_config.init

\* the four cases of the selector
C8_Witness ==
    /\ pc = "gate_cp"
    /\ ProfileVarsSet # {}
    /\ RegionVarsSet = {}
    /\ aws_profile # None
    /\ aws_region # None
    /\ aws_config.reads = 1

C8_WitnessRegionOnly ==
    pc = "gate_cp" /\ ProfileVarsSet = {} /\ RegionVarsSet # {} /\ ~aws_config.init

(***************************************************************************)
(* C9. Environment precedence is first-set-wins: the region is AWS_REGION  *)
(* if set, else AWS_DEFAULT_REGION; the profile is the first set variable  *)
(* in the order AWSU_PROFILE, AWS_VAULT, AWSUME_PROFILE, AWS_PROFILE,      *)
(* AWS_SSO_PROFILE.                                                        *)
(***************************************************************************)
C9_Precedence ==
    pc # "select" =>
        /\ aws_profile = FirstSet(<<"AWSU_PROFILE", "AWS_VAULT", "AWSUME_PROFILE",
                                    "AWS_PROFILE", "AWS_SSO_PROFILE">>)
        /\ RegionVarsSet # {}
           => aws_region = FirstSet(<<"AWS_REGION", "AWS_DEFAULT_REGION">>)

\* AWS_VAULT wins over AWS_PROFILE and AWS_SSO_PROFILE, AWS_REGION over
\* AWS_DEFAULT_REGION
C9_Witness ==
    /\ pc = "done"
    /\ env["AWSU_PROFILE"] = None
    /\ env["AWS_VAULT"] # None
    /\ env["AWS_PROFILE"] # None
    /\ env["AWS_SSO_PROFILE"] # None
    /\ env["AWS_REGION"] # None
    /\ env["AWS_DEFAULT_REGION"] # None
    /\ aws_profile = env["AWS_VAULT"]
    /\ aws_profile # env["AWS_PROFILE"]
    /\ aws_region = env["AWS_REGION"]
    /\ aws_region # env["AWS_DEFAULT_REGION"]
    /\ out.kind = "emitted"

(***************************************************************************)
(* C11. Defined-credentials predicate: has_defined_credentials(P) is       *)
(* Some(true) if any of AWS_ACCESS_KEY_ID, AWS_SECRET_ACCESS_KEY,          *)
(* AWS_SESSION_TOKEN is set, and then it does not load the credentials     *)
(* file; otherwise it is None when the credentials file or P's section is  *)
(* absent, and else tells whether that section contains aws_access_key_id. *)
(***************************************************************************)
CredsSectionPresent(p) == CredsIni # None /\ CredsSectionOf(p) \in DOMAIN CredsIni[1]

C11_DefinedCredentials ==
    /\ [](has_def.evaluated =>
            has_def.res = IF AccessKeyInEnv THEN Some(TRUE)
                          ELSE IF ~CredsSectionPresent(aws_profile) THEN None
                          ELSE Some(AccessKeyInFile(aws_profile)))
    /\ [][(pc = "gate_def" /\ AccessKeyInEnv) => aws_creds' = aws_creds]_vars

\* only AWS_SESSION_TOKEN is set: the predicate held without the credentials
\* file, which has no access key id for the profile, being loaded
C11_Witness ==
    /\ pc = "duration"
    /\ has_def = Evaluated(Some(TRUE))
    /\ env["AWS_ACCESS_KEY_ID"] = None
    /\ env["AWS_SECRET_ACCESS_KEY"] = None
    /\ env["AWS_SESSION_TOKEN"] # None
    /\ CredsSectionPresent(aws_profile)
    /\ ~AccessKeyInFile(aws_profile)
    /\ aws_creds = EmptyCell

\* no variable set: the section exists and holds another key only
C11_WitnessFile ==
    /\ has_def = Evaluated(Some(FALSE))
    /\ ~AccessKeyInEnv
    /\ HasKey(CredsIni, CredsSectionOf(aws_profile), "aws_secret_access_key")

(***************************************************************************)
(* C12. Both-absent termination: when the selector yields neither a        *)
(* profile nor a region, the pass returns suppressed at once, whatever     *)
(* force_display and the access-key variables are, and neither the         *)
(* credentials file nor the SSO cache file is read in that pass.           *)
(***************************************************************************)
C12_BothAbsent ==
    (pc # "select" /\ aws_profile = None /\ aws_region = None) =>
        /\ pc = "done"
        /\ out = Suppressed
        /\ aws_creds = EmptyCell
        /\ sso_reads = 0
        /\ has_cp = Unevaluated /\ has_src = Unevaluated /\ has_def = Unevaluated
        /\ duration = None

\* nothing resolved although force_display is on, an access-key variable is set
\* and [default] of the credentials file holds an access key id
C12_Witness ==
    /\ pc = "done"
    /\ aws_profile = None /\ aws_region = None
    /\ ForceDisplay
    /\ AccessKeyInEnv
    /\ AccessKeyInFile(None)
    /\ aws_config.reads = 1
    /\ out = Suppressed

(***************************************************************************)
(* C13. Expired/duration rendering: when the expiration calculator yields  *)
(* Some(d), the duration field is a rendered time span if d > 0 and the    *)
(* configured expiration_symbol if d <= 0, so d = 0 counts as expired and  *)
(* no negative span is rendered; when it yields None no duration field is  *)
(* emitted, and profile and region are emitted all the same.               *)
(***************************************************************************)
C13_Rendering ==
    out.kind = "emitted" =>
        /\ duration = None => out.duration = None
        /\ (duration # None /\ duration[1] > 0)
           => (/\ out.duration # None
               /\ out.duration[1].span
               /\ out.duration[1].secs = duration[1])
        /\ (duration # None /\ duration[1] <= 0)
           => (/\ out.duration # None
               /\ ~out.duration[1].span
               /\ out.duration[1].text = config.expiration_symbol)
        /\ (out.duration # None /\ out.duration[1].span) => out.duration[1].secs > 0
        /\ out.profile = aws_profile
        /\ out.region = aws_region

\* the credentials expire at this very second: the expiration symbol is shown
C13_Witness ==
    /\ out.kind = "emitted"
    /\ duration = Some(0)
    /\ out.duration = Some([span |-> FALSE, secs |-> 0, text |-> "X"])

C13_WitnessExpired ==
    out.kind = "emitted" /\ duration = Some(-600) /\ ~out.duration[1].span

C13_WitnessSpan ==
    out.kind = "emitted" /\ duration = Some(600) /\ out.duration[1].span

C13_WitnessNone ==
    out.kind = "emitted" /\ duration = None /\ out.duration = None /\ out.region # None

(***************************************************************************)
(* C14. Alias mapping is exact-match and single-step: for a name n that is *)
(* a key of the table the mapped value table[n] is emitted, and it is not  *)
(* looked up again; any other name is emitted unchanged; None stays None.  *)
(***************************************************************************)
C14_AliasExact ==
    out.kind = "emitted" =>
        /\ aws_profile = None => out.profile = None
        /\ (aws_profile # None /\ aws_profile[1] \in DOMAIN config.profile_aliases)
           => out.profile = Some(config.profile_aliases[aws_profile[1]])
        /\ (aws_profile # None /\ aws_profile[1] \notin DOMAIN config.profile_aliases)
           => out.profile = aws_profile
        /\ aws_region = None => out.region = None
        /\ (aws_region # None /\ aws_region[1] \in DOMAIN config.region_aliases)
           => out.region = Some(config.region_aliases[aws_region[1]])
        /\ (aws_region # None /\ aws_region[1] \notin DOMAIN config.region_aliases)
           => out.region = aws_region

\* astronauts -> astro -> chained and ap-northeast-2 -> an2 -> chained: one step
\* of each is taken
C14_Witness ==
    /\ out.kind = "emitted"
    /\ aws_profile = Some("astronauts")
    /\ aws_region = Some("ap-northeast-2")
    /\ "astro" \in DOMAIN config.profile_aliases
    /\ "an2" \in DOMAIN config.region_aliases
    /\ out.profile = Some("astro")
    /\ out.region = Some("an2")

\* a key that differs in case only, and no profile at all: nothing is mapped
C14_WitnessUnmapped ==
    /\ out.kind = "emitted"
    /\ aws_profile = Some("astronauts")
    /\ "Astronauts" \in DOMAIN config.profile_aliases
    /\ out.profile = Some("astronauts")

C14_WitnessNone ==
    /\ out.kind = "emitted"
    /\ aws_profile = None
    /\ config.profile_aliases # << >>
    /\ out.profile = None

(***************************************************************************)
(* C15. Aliases never influence resolution: the section lookups of the     *)
(* region fallback, the three predicates and the expiration calculator use *)
(* the un-aliased profile, the tables are applied after the gate and the   *)
(* expiration computation, profile_aliases to the profile only and         *)
(* region_aliases to the region only; a render after a change of the alias *)
(* tables alone is suppressed or not as before, with the same duration.    *)
(***************************************************************************)
OnlyAliasesChanged ==
    /\ last # None
    /\ last[1].env = env
    /\ last[1].fs = fs
    /\ last[1].now = now
    /\ last[1].config.force_display = config.force_display
    /\ last[1].config.expiration_symbol = config.expiration_symbol

C15_AliasesAfterResolution ==
    /\ pc # "select"
       => aws_profile = FirstSet(<<"AWSU_PROFILE", "AWS_VAULT", "AWSUME_PROFILE",
                                   "AWS_PROFILE", "AWS_SSO_PROFILE">>)
    /\ (pc # "select" /\ RegionVarsSet = {})
       => aws_region = ValueOf(ConfigIni, ConfigSectionOf(aws_profile), "region")
    /\ (pc = "done" /\ Resolved)
       => (out.kind = "suppressed" <=> (~ForceDisplay /\ C1_NoEvidence))
    /\ pc = "emit"
       => duration = get_credentials_duration(aws_profile, EmptyCell, EmptyCell).res
    /\ (out.kind = "emitted" /\ aws_profile # None
            /\ aws_profile[1] \notin DOMAIN config.profile_aliases)
       => out.profile = aws_profile
    /\ (out.kind = "emitted" /\ aws_region # None
            /\ aws_region[1] \notin DOMAIN config.region_aliases)
       => out.region = aws_region
    /\ (pc = "done" /\ OnlyAliasesChanged)
       => /\ out.kind = last[1].out.kind
          /\ duration = last[1].duration
          /\ aws_profile = last[1].profile
          /\ aws_region = last[1].region

\* astronauts is shown as astro in one of two renders; only [profile astro] has
\* an SSO marker, so both renders are suppressed
C15_Witness ==
    /\ pc = "done"
    /\ OnlyAliasesChanged
    /\ aws_profile = Some("astronauts")
    /\ "astronauts" \in DOMAIN config.profile_aliases
    /\ "astronauts" \notin DOMAIN last[1].config.profile_aliases
    /\ ~ForceDisplay
    /\ ~AccessKeyInEnv
    /\ Marker(Some("astro"))
    /\ ~Marker(Some("astronauts"))
    /\ has_cp.evaluated
    /\ out.kind = "suppressed"
    /\ last[1].out.kind = "suppressed"

\* the same profile emitted under two names, with the same duration
C15_WitnessEmitted ==
    /\ pc = "done"
    /\ OnlyAliasesChanged
    /\ out.kind = "emitted"
    /\ out.profile # None
    /\ last[1].out.profile # None
    /\ out.profile # last[1].out.profile
    /\ duration = Some(-600)
    /\ last[1].duration = Some(-600)

(***************************************************************************)
(* C16. Unusable files are no data, never an error: a config or            *)
(* credentials file that is missing, unparseable or a directory memoises   *)
(* None in its cell; a render after such a file became unusable in another *)
(* way has the same outcome; every pass is at one of the steps of module() *)
(* until it ends, suppressed or emitted.                                   *)
(***************************************************************************)
UnusableAt(path_opt) ==
    path_opt # None /\ path_opt[1] \in DOMAIN fs /\ fs[path_opt[1]] \in Unusable

OnlyUnusableChanged ==
    /\ last # None
    /\ last[1].env = env
    /\ last[1].now = now
    /\ last[1].config = config
    /\ \A path \in DOMAIN fs :
           \/ fs[path] = last[1].fs[path]
           \/ fs[path] \in Unusable /\ last[1].fs[path] \in Unusable

C16_UnusableIsNoData ==
    /\ (aws_config.init /\ UnusableAt(get_config_file_path)) => aws_config.val = None
    /\ (aws_creds.init /\ UnusableAt(get_credentials_file_path)) => aws_creds.val = None
    /\ pc \in {"select", "gate_cp", "gate_src", "gate_def", "duration", "emit", "done"}
    /\ pc # "done" => out = Running
    /\ pc = "done" => out.kind \in {"suppressed", "emitted"}
    /\ (pc = "done" /\ OnlyUnusableChanged)
       => (out = last[1].out /\ duration = last[1].duration)

\* the config file was unparseable and is now a directory; both renders are
\* emitted for the access key id in the credentials file
C16_Witness ==
    /\ pc = "done"
    /\ OnlyUnusableChanged
    /\ last[1].fs[HomeConfig] = Garbage
    /\ fs[HomeConfig] = Directory
    /\ aws_config.init /\ aws_config.val = None
    /\ AccessKeyInFile(aws_profile)
    /\ ~AccessKeyInEnv
    /\ ~ForceDisplay
    /\ out.kind = "emitted"

\* the credentials file was a directory and is now missing
C16_WitnessCreds ==
    /\ pc = "done"
    /\ OnlyUnusableChanged
    /\ last[1].fs[HomeCreds] = Directory
    /\ fs[HomeCreds] = Missing
    /\ aws_creds.init /\ aws_creds.val = None
    /\ out.kind = "emitted"

(***************************************************************************)
(* C19. Idempotence: two passes over the same environment, files,          *)
(* configuration and clock value have the same outcome, both suppressed or *)
(* both emitting the same profile, region and duration; the second pass    *)
(* starts with empty cells and sees nothing of the first.                  *)
(***************************************************************************)
NothingChanged ==
    /\ last # None
    /\ last[1].env = env
    /\ last[1].fs = fs
    /\ last[1].now = now
    /\ last[1].config = config

C19_Idempotence ==
    /\ (pc = "done" /\ NothingChanged) => out = last[1].out
    /\ (pc = "select" /\ last # None)
       => /\ aws_config = EmptyCell
          /\ aws_creds = EmptyCell
          /\ sso_reads = 0
          /\ aws_profile = None /\ aws_region = None /\ duration = None
          /\ has_cp = Unevaluated /\ has_src = Unevaluated /\ has_def = Unevaluated
          /\ out = Running

\* the second of two equal renders read the config file itself and emitted the
\* same profile, region and expired marker
C19_Witness ==
    /\ pc = "done"
    /\ pass = 2
    /\ NothingChanged
    /\ out.kind = "emitted"
    /\ out.profile # None /\ out.region # None /\ out.duration # None
    /\ out = last[1].out
    /\ aws_config.reads = 1
    /\ sso_reads = 1

C19_WitnessSuppressed ==
    /\ pc = "done"
    /\ pass = 2
    /\ NothingChanged
    /\ Resolved
    /\ out = Suppressed
    /\ last[1].out = Suppressed

(***************************************************************************)
(* C17. File path resolution: the config file is read from the value of    *)
(* AWS_CONFIG_FILE if that variable is set and non-empty, otherwise from   *)
(* <home>/.aws/config; the credentials file from the value of the          *)
(* credentials override (AWS_SHARED_CREDENTIALS_FILE, else                 *)
(* AWS_CREDENTIALS_FILE) if set and non-empty, otherwise from              *)
(* <home>/.aws/credentials; an override set to the empty string counts as  *)
(* unset.                                                                  *)
(***************************************************************************)
SetAndNonEmpty(v) == v # None /\ v # Some("")

ClaimedConfigPath ==
    IF SetAndNonEmpty(env["AWS_CONFIG_FILE"])
    THEN <<env["AWS_CONFIG_FILE"][1]>>
    ELSE home[1] \o <<".aws/config">>

ClaimedCredsPath ==
    LET override == IF env["AWS_SHARED_CREDENTIALS_FILE"] # None
                    THEN env["AWS_SHARED_CREDENTIALS_FILE"]
                    ELSE env["AWS_CREDENTIALS_FILE"]
    IN  IF SetAndNonEmpty(override) THEN <<override[1]>>
        ELSE home[1] \o <<".aws/credentials">>

FileAt(path) == IF fs[path].kind = "ini" THEN Some(fs[path].data) ELSE None

C17_PathResolution ==
    /\ aws_config.init => aws_config.val = FileAt(ClaimedConfigPath)
    /\ aws_creds.init => aws_creds.val = FileAt(ClaimedCredsPath)

\* what the code does: any set override is taken for the path, the empty one too
C17_PathAsCoded ==
    /\ aws_config.init
       => aws_config.val =
              IF env["AWS_CONFIG_FILE"] = Some("") THEN None
              ELSE FileAt(ClaimedConfigPath)
    /\ aws_creds.init
       => aws_creds.val =
              IF env["AWS_SHARED_CREDENTIALS_FILE"] = Some("")
                 \/ (env["AWS_SHARED_CREDENTIALS_FILE"] = None
                     /\ env["AWS_CREDENTIALS_FILE"] = Some(""))
              THEN None
              ELSE FileAt(ClaimedCredsPath)

(***************************************************************************)
(* C18. SSO cache lookup: the SSO expiry source takes sso_start_url from   *)
(* the resolved profile's own config section and reads exactly the file    *)
(* <home>/.aws/sso/cache/<sha1-hex(sso_start_url)>.json; with              *)
(* sso_start_url in that section and a cached expiresAt in the past the    *)
(* pass is displayed with the expired marker; a profile whose section has  *)
(* only sso_session is displayed with no duration and no cache file is     *)
(* read.  Stated for passes in which no earlier source holds an expiry.    *)
(***************************************************************************)
SsoStartUrl == ValueOf(ConfigIni, ConfigSectionOf(aws_profile), "sso_start_url")

\* the expiry in the cache file of the start URL url
CachedExpiry(url) ==
    LET f == fs[home[1] \o <<".aws/sso/cache/" \o sha1_hex(url) \o ".json">>]
    IN  IF f.kind = "json" /\ "expiresAt" \in DOMAIN f.data
           /\ f.data["expiresAt"].type = "string"
        THEN parse_from_rfc3339(f.data["expiresAt"].str)
        ELSE None

NoEarlierExpiry ==
    /\ \A v \in {"AWS_CREDENTIAL_EXPIRATION", "AWS_SESSION_EXPIRATION",
                 "AWSUME_EXPIRATION"} : env[v] = None
    /\ ~HasKey(CredsIni, CredsSectionOf(aws_profile), "expiration")
    /\ ~HasKey(CredsIni, CredsSectionOf(aws_profile), "x_security_token_expires")

C18_SsoLookup ==
    (pc = "done" /\ NoEarlierExpiry) =>
        /\ (SsoStartUrl # None /\ CachedExpiry(SsoStartUrl[1]) # None)
           => (/\ out.kind = "emitted"
               /\ duration = Some(CachedExpiry(SsoStartUrl[1])[1] - now)
               /\ sso_reads = 1)
        /\ (/\ SsoStartUrl # None
            /\ CachedExpiry(SsoStartUrl[1]) # None
            /\ CachedExpiry(SsoStartUrl[1])[1] < now)
           => out.duration = Some([span |-> FALSE, secs |-> 0,
                                   text |-> config.expiration_symbol])
        /\ (SsoStartUrl = None
            /\ HasKey(ConfigIni, ConfigSectionOf(aws_profile), "sso_session"))
           => (out.kind = "emitted" /\ out.duration = None /\ sso_reads = 0)

\* what the code does: the same, in passes whose profile has no section in the
\* credentials file
C18_SsoAsCoded ==
    (pc = "done" /\ NoEarlierExpiry /\ ~CredsSectionPresent(aws_profile)) => C18_SsoLookup

(***************************************************************************)
(* C20. Expiration source precedence: if any of AWS_CREDENTIAL_EXPIRATION, *)
(* AWS_SESSION_EXPIRATION, AWSUME_EXPIRATION is set, the expiry is that of *)
(* the first set one in this order and the calculator reads neither the    *)
(* credentials file nor the SSO cache; otherwise, in the profile's         *)
(* credentials section expiration is preferred over                        *)
(* x_security_token_expires; the SSO cache is used only when neither       *)
(* earlier source supplies a value; the result is the expiry minus now in  *)
(* seconds and may be negative.                                            *)
(***************************************************************************)
SecondsLeft(expiry) == IF expiry = None THEN None ELSE Some(expiry[1] - now)

ExpirationVar ==
    FirstSet(<<"AWS_CREDENTIAL_EXPIRATION", "AWS_SESSION_EXPIRATION", "AWSUME_EXPIRATION">>)

ExpirationKey == ValueOf(CredsIni, CredsSectionOf(aws_profile), "expiration")

TokenExpiresKey ==
    ValueOf(CredsIni, CredsSectionOf(aws_profile), "x_security_token_expires")

C20_SourcePrecedence ==
    /\ [](pc = "emit" =>
            /\ IF ExpirationVar # None
               THEN duration = SecondsLeft(parse_from_rfc3339(ExpirationVar[1]))
               ELSE IF ExpirationKey # None
               THEN duration = SecondsLeft(parse_from_rfc3339(ExpirationKey[1]))
               ELSE IF TokenExpiresKey # None
               THEN duration = SecondsLeft(parse_from_rfc3339(TokenExpiresKey[1]))
               ELSE duration # None
                    => (/\ SsoStartUrl # None
                        /\ duration = SecondsLeft(CachedExpiry(SsoStartUrl[1])))
            /\ sso_reads > 0
               => (ExpirationVar = None /\ ExpirationKey = None /\ TokenExpiresKey = None))
    /\ [][(pc = "duration" /\ ExpirationVar # None)
              => (/\ aws_creds' = aws_creds
                  /\ aws_config' = aws_config
                  /\ sso_reads' = sso_reads)]_vars

\* no variable set, both keys in the section: expiration (600 s left) is taken,
\* not x_security_token_expires (expired 600 s ago)
C20_Witness ==
    /\ pc = "emit"
    /\ ExpirationVar = None
    /\ ExpirationKey = Some("1970-01-01T00:30:00Z")
    /\ TokenExpiresKey = Some("1970-01-01T00:10:00Z")
    /\ duration = Some(600)

\* the second and third variables are set: the second is taken and the
\* credentials file, which holds an expiry too, is not read
C20_WitnessEnv ==
    /\ pc = "emit"
    /\ env["AWS_CREDENTIAL_EXPIRATION"] = None
    /\ env["AWS_SESSION_EXPIRATION"] # None
    /\ env["AWSUME_EXPIRATION"] # None
    /\ TokenExpiresKey # None
    /\ duration = Some(600)
    /\ aws_creds = EmptyCell
    /\ sso_reads = 0

\* only the SSO cache holds an expiry, in the past
C20_WitnessSso ==
    /\ pc = "emit"
    /\ ExpirationVar = None
    /\ sso_reads = 1
    /\ duration = Some(-600)

(***************************************************************************)
(* C21. force_display affects only the gate: over the same environment,    *)
(* files and clock, a pass that emits (profile, region, duration) with     *)
(* force_display off emits the same with force_display on; the outcomes    *)
(* of the two settings differ exactly for the passes with a resolved       *)
(* profile or region and no credential evidence, which go from suppressed  *)
(* to emitted.                                                             *)
(***************************************************************************)
OnlyForceDisplayChanged ==
    /\ last # None
    /\ last[1].env = env
    /\ last[1].fs = fs
    /\ last[1].now = now
    /\ last[1].config.force_display # config.force_display
    /\ last[1].config.expiration_symbol = config.expiration_symbol
    /\ last[1].config.profile_aliases = config.profile_aliases
    /\ last[1].config.region_aliases = config.region_aliases

\* of the two renders, the outcome of the one with force_display off
OutUnforced == IF config.force_display THEN last[1].out ELSE out

\* and of the one with force_display on
OutForced == IF config.force_display THEN out ELSE last[1].out

C21_ForceDisplayOnlyGate ==
    (pc = "done" /\ OnlyForceDisplayChanged) =>
        /\ aws_profile = last[1].profile
        /\ aws_region = last[1].region
        /\ OutUnforced.kind = "emitted" => OutForced = OutUnforced
        /\ (OutForced # OutUnforced)
           <=> (Resolved /\ C1_NoEvidence)
        /\ (OutForced # OutUnforced)
           => (OutUnforced = Suppressed /\ OutForced.kind = "emitted")

\* evidence from an SSO marker: emitted with the same expired marker under both
\* settings
C21_Witness ==
    /\ pc = "done"
    /\ OnlyForceDisplayChanged
    /\ config.force_display
    /\ last[1].out.kind = "emitted"
    /\ last[1].out.duration # None
    /\ out = last[1].out

\* a region and no evidence: suppressed, then emitted once force_display is on
C21_WitnessForced ==
    /\ pc = "done"
    /\ OnlyForceDisplayChanged
    /\ config.force_display
    /\ Resolved
    /\ last[1].out = Suppressed
    /\ out.kind = "emitted"

\* nothing resolved: suppressed under both settings
C21_WitnessUnresolved ==
    /\ pc = "done"
    /\ OnlyForceDisplayChanged
    /\ ~Resolved
    /\ out = Suppressed
    /\ last[1].out = Suppressed

(***************************************************************************)
(* C22. is_write_allowed on a network path returns Ok(true) without any    *)
(* security query; on another path it returns Ok(b) only after, in order,  *)
(* the size query failed with ERROR_INSUFFICIENT_BUFFER and the second     *)
(* GetFileSecurityW, OpenProcessToken, DuplicateToken and AccessCheck      *)
(* succeeded, b being the access status of AccessCheck; any other outcome  *)
(* of a step (a success of the size query too) returns Err, and no later   *)
(* step runs.                                                              *)
(***************************************************************************)
\* the calls made so far, the closing of handles left out
Queries == SelectSeq(calls, LAMBDA c : c.api # "CloseHandle")

\* the steps in the order of the function body, and the outcome of each that
\* lets the next one run
Steps ==
    <<[api |-> "PathIsNetworkPathW", rc |-> "FALSE"],
      [api |-> "GetFileSecurityW", rc |-> "ERROR_INSUFFICIENT_BUFFER"],
      [api |-> "GetFileSecurityW", rc |-> "ERROR_SUCCESS"],
      [api |-> "OpenProcessToken", rc |-> "ERROR_SUCCESS"],
      [api |-> "DuplicateToken", rc |-> "ERROR_SUCCESS"],
      [api |-> "AccessCheck", rc |-> "ERROR_SUCCESS"]>>

\* the last step made had the outcome that lets the function go on
LastStepPassed == Queries[Len(Queries)].rc = Steps[Len(Queries)].rc

C22_StepsInOrder ==
    /\ Len(Queries) <= Len(Steps)
    /\ \A i \in 1..Len(Queries) :
           /\ Queries[i].api = Steps[i].api
           /\ i < Len(Queries) => Queries[i].rc = Steps[i].rc
    /\ ret # None =>
           /\ Queries # << >>
           /\ IF Queries[1].rc = "TRUE"
              THEN ret = Some(Ok(TRUE)) /\ Len(calls) = 1
              ELSE IF Len(Queries) = Len(Steps) /\ LastStepPassed
              THEN ret = Some(Ok(Queries[Len(Steps)].out = "TRUE"))
              ELSE ret[1].kind = "Err" /\ ~LastStepPassed
    /\ (ret = None /\ Queries # << >>) => LastStepPassed
    /\ wpc = "returned" => ret # None

\* every step passed and AccessCheck denied the write access
C22_Witness ==
    /\ wpc = "returned"
    /\ Len(Queries) = Len(Steps)
    /\ ret = Some(Ok(FALSE))

\* a network path
C22_WitnessNetwork ==
    /\ wpc = "returned"
    /\ calls = <<Call("PathIsNetworkPathW", "", "TRUE", "")>>
    /\ ret = Some(Ok(TRUE))

\* the size query succeeded: Err, and no second query
C22_WitnessSizeSucceeded ==
    /\ wpc = "returned"
    /\ Len(calls) = 2
    /\ calls[2] = Call("GetFileSecurityW", "", "ERROR_SUCCESS", "")
    /\ ret # None
    /\ ret[1].kind = "Err"

(***************************************************************************)
(* C23. No handle leak in is_write_allowed: on every return path each      *)
(* token handle that was opened (process token, impersonation token) is    *)
(* closed exactly once before the function returns, and no handle is       *)
(* closed that was never opened; a failing CloseHandle is only logged and  *)
(* does not change the result.                                             *)
(***************************************************************************)
\* the positions in calls of the successful openings of h
Openings(h) ==
    {i \in 1..Len(calls) : /\ calls[i].api \in {"OpenProcessToken", "DuplicateToken"}
                           /\ calls[i].rc = "ERROR_SUCCESS"
                           /\ calls[i].out = h}

\* the positions in calls of the calls of CloseHandle on h
Closings(h) ==
    {i \in 1..Len(calls) : calls[i].api = "CloseHandle" /\ calls[i].arg = h}

FailedClosings ==
    {i \in 1..Len(calls) : calls[i].api = "CloseHandle" /\ calls[i].rc # "ERROR_SUCCESS"}

\* the return value is set no later than the first drop and stays as it is
ResultKeptByDrop == (wpc = "drop") => (ret # None /\ ret' = ret)

C23_HandlesClosed ==
    /\ \A h \in HandleValues :
           /\ Cardinality(Openings(h)) <= 1
           /\ Cardinality(Closings(h)) <= Cardinality(Openings(h))
           /\ \A i \in Closings(h) : \E j \in Openings(h) : j < i
           /\ wpc = "returned" => Cardinality(Closings(h)) = Cardinality(Openings(h))
    /\ \A i \in 1..Len(calls) : calls[i].api = "CloseHandle" => calls[i].arg \in HandleValues
    /\ logged = Cardinality(FailedClosings)
    /\ wpc = "returned" =>
           /\ token = None
           /\ impersonated_token = None
           /\ handles = {calls[i].arg : i \in FailedClosings}

C23_NoHandleLeak == []C23_HandlesClosed /\ [][ResultKeptByDrop]_vars

\* DuplicateToken failed, and so did the closing of the process token: the
\* failure is logged and the function returns the error of DuplicateToken
C23_Witness ==
    /\ wpc = "returned"
    /\ token = None
    /\ ret = Some(Err("DuplicateToken failed"))
    /\ Len(calls) = 6
    /\ calls[6].api = "CloseHandle"
    /\ calls[6].arg = calls[4].out
    /\ calls[6].rc = "ERROR_INVALID_HANDLE"
    /\ logged = 1

\* both tokens opened, the impersonation token closed first
C23_WitnessBoth ==
    /\ wpc = "returned"
    /\ ret = Some(Ok(TRUE))
    /\ Len(calls) = 8
    /\ calls[7] = Call("CloseHandle", calls[5].out, "ERROR_SUCCESS", "")
    /\ calls[8] = Call("CloseHandle", calls[4].out, "ERROR_SUCCESS", "")
    /\ handles = {}

\* OpenProcessToken failed: nothing to close
C23_WitnessNoToken ==
    /\ wpc = "returned"
    /\ ret = Some(Err("OpenProcessToken failed to retrieve current process' security token"))
    /\ \A h \in HandleValues : Closings(h) = {}

====
